---- MODULE Spec2Model ----
(***************************************************************************)
(* Model of src/src/Components/VideoPlayer.tsx: the VideoPlayer component  *)
(* (the Playback State Mirror of its useEffect and the Command Surface of  *)
(* its useMemo) together with the HTMLVideoElement it drives, and the pure *)
(* helpers clamp and formatTime.                                           *)
(*                                                                         *)
(* Numbers.  A JavaScript number that can be non-finite (the element's     *)
(* duration, formatTime's argument) is a record [kind, val]; times are     *)
(* fixed-point, val counting ticks of 1/TicksPerSecond second.  The        *)
(* element's currentTime and volume are always finite and are kept as      *)
(* integers: currentTime in ticks, volume in steps of 1/VolSteps, so that  *)
(* the volume 1.0 of the source is the integer One.                        *)
(***************************************************************************)
EXTENDS Integers, Sequences, FiniteSets

\* ---------------------------------------------------------------- bounds
MaxTime == 2          \* largest finite duration of the media, in ticks
VolSteps == 2         \* resolution of the volume scale: 1.0 is VolSteps steps
MaxInputs == 3        \* commands invoked and changes made by the platform in a run
TicksPerSecond == 2   \* resolution of the fixed-point times given to formatTime
MaxSeconds == 620     \* largest whole number of seconds given to formatTime

\* ------------------------------------------------------- JavaScript numbers
Num(n) == [kind |-> "finite", val |-> n]
NaN == [kind |-> "NaN", val |-> 0]
Infinity == [kind |-> "Infinity", val |-> 0]
NegInfinity == [kind |-> "-Infinity", val |-> 0]

\* Number.isFinite(x)
isFinite(x) == x.kind = "finite"

\* x || 0 on a number: NaN and 0 are falsy
OrZero(x) == IF x = NaN \/ x = Num(0) THEN Num(0) ELSE x

\* Math.max(a, b) and Math.min(a, b) on finite numbers
MathMax(a, b) == IF a >= b THEN a ELSE b
MathMin(a, b) == IF a <= b THEN a ELSE b

\* clamp, with its upper bound dropped
clampNoUpper(n, min, max) == MathMax(n, min)

\* clamp, with its lower bound dropped
clampNoLower(n, min, max) == MathMin(n, max)

\* function clamp(n, min, max)
clamp(n, min, max) == MathMin(MathMax(n, min), max)

\* The volume 1.0 (the upper bound of clamp(vol, 0, 1)), in volume steps
One == VolSteps

\* ------------------------------------------------------------- the state
VARIABLES
    videoRef,           \* videoRef.current: "null" or "video"
    subscribed,         \* the event types the effect's listeners are registered for
    el,                 \* the HTMLVideoElement: paused, currentTime, duration, volume, muted
    state,              \* the PlayerState snapshot held by useState
    pending,            \* the media-element tasks queued: each the events it fires
    fullscreenElement,  \* document.fullscreenElement is non-null
    inflight,           \* unsettled promises awaited by togglePlay and fullscreen
    last,               \* the latest step: handler, argument, element found,
                        \* platform calls made, console.error messages,
                        \* exception escaped
    phase,              \* "constructed", "attached" or "detached"
    inputs,             \* commands invoked and platform changes made so far
    ftIn, ftOut         \* formatTime's argument and result

vars == <<videoRef, subscribed, el, state, pending, fullscreenElement,
          inflight, last, phase, inputs, ftIn, ftOut>>

playerVars == <<videoRef, subscribed, el, state, pending, fullscreenElement,
                inflight, last, phase, inputs>>

EventTypes == {"loadedmetadata", "timeupdate", "play", "pause", "volumechange"}

PromiseKinds == {"playOk", "playRejected", "requestFullscreen", "exitFullscreen"}

\* The finite or unbounded durations a loaded resource can report
Durations == {Num(d) : d \in 1..MaxTime} \cup {Infinity}

\* Arguments given to seekTo (ticks) and setVolume (volume steps)
SeekArgs == -1..(MaxTime + 1)
VolumeArgs == -1..(VolSteps + 1)

\* The record of a step: the handler that ran, its argument, the element as
\* it found it, the calls it made on the platform, the messages it gave
\* console.error, and whether an exception escaped to its caller
Step(op, arg, requests, logged, threw) ==
    [op |-> op, arg |-> arg, found |-> el, requests |-> requests,
     logged |-> logged, threw |-> threw]

Quiet(op, arg) == Step(op, arg, <<>>, <<>>, FALSE)

\* A run is cut after MaxInputs commands and platform changes; the tasks and
\* promises they leave behind are always run to completion
Input ==
    /\ inputs < MaxInputs
    /\ inputs' = inputs + 1

PlayerInit ==
    /\ videoRef = "null"
    /\ subscribed = {}
    /\ el = [paused |-> TRUE, currentTime |-> 0, duration |-> NaN,
             volume |-> One, muted |-> FALSE]
    /\ state = [playing |-> FALSE, current |-> 0, duration |-> Num(0),
                muted |-> FALSE, volume |-> One]
    /\ pending = <<>>
    /\ fullscreenElement = FALSE
    /\ inflight = [k \in PromiseKinds |-> 0]
    /\ last = Quiet("init", 0)
    /\ phase = "constructed"
    /\ inputs = 0

Init ==
    /\ PlayerInit
    /\ ftIn = Num(0)
    /\ ftOut = ""

\* ------------------------------------------------ the Playback State Mirror

\* onVolume, rebuilding the snapshot instead of merging into it
onVolumeRebuild(s) ==
    [playing |-> FALSE, current |-> 0, duration |-> Num(0),
     muted |-> el.muted, volume |-> el.volume]

\* setState((s) => ({ ...s, duration: v.duration || 0 }))
onLoadedMetadata(s) == [s EXCEPT !.duration = OrZero(el.duration)]

\* setState((s) => ({ ...s, current: v.currentTime || 0 }))
onTimeUpdate(s) == [s EXCEPT !.current = OrZero(Num(el.currentTime)).val]

\* setState((s) => ({ ...s, playing: true }))
onPlay(s) == [s EXCEPT !.playing = TRUE]

\* setState((s) => ({ ...s, playing: false }))
onPause(s) == [s EXCEPT !.playing = FALSE]

\* setState((s) => ({ ...s, volume: v.volume, muted: v.muted }))
onVolume(s) == [s EXCEPT !.volume = el.volume, !.muted = el.muted]

\* The listener addEventListener registered for an event type
Handler(e, s) ==
    CASE e = "loadedmetadata" -> onLoadedMetadata(s)
      [] e = "timeupdate" -> onTimeUpdate(s)
      [] e = "play" -> onPlay(s)
      [] e = "pause" -> onPause(s)
      [] e = "volumechange" -> onVolume(s)

\* The effect, forgetting the listener for pause
ListenedButPause == {"loadedmetadata", "timeupdate", "play", "volumechange"}

\* The event types the effect calls addEventListener for
Listened == {"loadedmetadata", "timeupdate", "play", "pause", "volumechange"}

\* The cleanup, forgetting one removeEventListener
RemovedButVolume == Listened \ {"volumechange"}

\* The event types the cleanup calls removeEventListener for
Removed == {"loadedmetadata", "timeupdate", "play", "pause", "volumechange"}

\* The initial reading, without the playing field
initSnapshotNoPlaying(s) == onVolume(onTimeUpdate(onLoadedMetadata(s)))

\* "init snapshot": the three handlers called by hand, then playing: !v.paused
initSnapshot(s) ==
    [onVolume(onTimeUpdate(onLoadedMetadata(s))) EXCEPT !.playing = ~el.paused]

\* Mount: React sets videoRef.current, then runs the effect, which subscribes
\* and takes the initial reading
Attach ==
    /\ phase = "constructed"
    /\ phase' = "attached"
    /\ videoRef' = "video"
    /\ subscribed' = subscribed \cup Listened
    /\ state' = initSnapshot(state)
    /\ last' = Quiet("attach", 0)
    /\ UNCHANGED <<el, pending, fullscreenElement, inflight, inputs, ftIn, ftOut>>

\* Unmount: the effect's cleanup unsubscribes and React clears videoRef.current
Detach ==
    /\ phase = "attached"
    /\ phase' = "detached"
    /\ videoRef' = "null"
    /\ subscribed' = subscribed \ Removed
    /\ last' = Quiet("detach", 0)
    /\ UNCHANGED <<el, state, pending, fullscreenElement, inflight, inputs,
                   ftIn, ftOut>>

RECURSIVE Deliver(_, _)
\* The events of a task, each dispatched to the listener registered for its
\* type, if there is one
Deliver(events, s) ==
    IF events = <<>> THEN s
    ELSE Deliver(Tail(events),
                 IF Head(events) \in subscribed THEN Handler(Head(events), s) ELSE s)

\* The event loop runs the oldest media-element task
Dispatch ==
    /\ pending /= <<>>
    /\ pending' = Tail(pending)
    /\ state' = Deliver(Head(pending), state)
    /\ last' = Quiet("dispatch", 0)
    /\ UNCHANGED <<videoRef, subscribed, el, fullscreenElement, inflight, phase,
                   inputs, ftIn, ftOut>>

\* ------------------------------------------------------ the media element

\* The element queues the media-element tasks fired, in order
Fire(fired) == pending' = pending \o fired

\* v.currentTime = x: the element seeks and fires timeupdate; before its
\* metadata is loaded it only records the position
SetCurrentTime(e, x) ==
    [el |-> [e EXCEPT !.currentTime = x],
     fired |-> IF e.duration = NaN THEN <<>> ELSE << <<"timeupdate">> >>,
     calls |-> <<"currentTime=">>, promise |-> ""]

\* v.muted = m: the element fires volumechange when the value changes
SetMuted(e, m) ==
    [el |-> [e EXCEPT !.muted = m],
     fired |-> IF e.muted /= m THEN << <<"volumechange">> >> ELSE <<>>,
     calls |-> <<"muted=">>, promise |-> ""]

\* v.volume = x, x within [0, 1]: volumechange when the value changes
SetVolume(e, x) ==
    [el |-> [e EXCEPT !.volume = x],
     fired |-> IF e.volume /= x THEN << <<"volumechange">> >> ELSE <<>>,
     calls |-> <<"volume=">>, promise |-> ""]

\* v.pause() on a playing element: paused, and one task that fires timeupdate
\* and then pause
Pause(e) ==
    [el |-> [e EXCEPT !.paused = TRUE], fired |-> << <<"timeupdate", "pause">> >>,
     calls |-> <<"pause">>, promise |-> ""]

\* v.play() on a paused element.  Allowed: the element is not paused at once,
\* play is fired and the promise returned resolves.  Refused (autoplay
\* policy): the element is left as it is and the promise rejects.
Play(e, allowed) ==
    IF allowed
    THEN [el |-> [e EXCEPT !.paused = FALSE], fired |-> << <<"play">> >>,
          calls |-> <<"play">>, promise |-> "playOk"]
    ELSE [el |-> e, fired |-> <<>>, calls |-> <<"play">>, promise |-> "playRejected"]

\* document.exitFullscreen() and v.requestFullscreen(): a promise, nothing
\* changed until it settles
ExitFullscreen(e) ==
    [el |-> e, fired |-> <<>>, calls |-> <<"exitFullscreen">>,
     promise |-> "exitFullscreen"]

RequestFullscreen(e) ==
    [el |-> e, fired |-> <<>>, calls |-> <<"requestFullscreen">>,
     promise |-> "requestFullscreen"]

\* ---------------------------------------------------- the Command Surface

\* A command returning at "if (!v) return"
Absent(op, arg) ==
    /\ Input
    /\ last' = Quiet(op, arg)
    /\ UNCHANGED <<videoRef, subscribed, el, state, pending, fullscreenElement,
                   inflight, phase, ftIn, ftOut>>

\* A command without "if (!v) return": reading a property of null throws
NoGuard(op, arg) ==
    /\ Input
    /\ last' = Step(op, arg, <<>>, <<>>, TRUE)
    /\ UNCHANGED <<videoRef, subscribed, el, state, pending, fullscreenElement,
                   inflight, phase, ftIn, ftOut>>

\* The synchronous part of a command: the calls it makes on the element, and
\* the promise it is left awaiting
Mutate(op, arg, r) ==
    /\ Input
    /\ el' = r.el
    /\ Fire(r.fired)
    /\ inflight' = IF r.promise = "" THEN inflight
                   ELSE [inflight EXCEPT ![r.promise] = @ + 1]
    /\ last' = Step(op, arg, r.calls, <<>>, FALSE)
    /\ UNCHANGED <<videoRef, subscribed, state, fullscreenElement, phase,
                   ftIn, ftOut>>

\* seekTo, assigning its argument unclamped
seekToUnclamped(t) ==
    IF videoRef = "null" THEN Absent("seekTo", t)
    ELSE Mutate("seekTo", t, SetCurrentTime(el, t))

\* seekTo, without the test for an absent element
seekToNoGuard(t) ==
    IF videoRef = "null" THEN NoGuard("seekTo", t)
    ELSE Mutate("seekTo", t, SetCurrentTime(el,
             clamp(t, 0, IF isFinite(el.duration) THEN el.duration.val ELSE 0)))

\* seekTo: (t) => { ... v.currentTime = clamp(t, 0, isFinite(d) ? d : 0) }
seekTo(t) ==
    IF videoRef = "null" THEN Absent("seekTo", t)
    ELSE LET next == clamp(t, 0, IF isFinite(el.duration) THEN el.duration.val ELSE 0)
         IN Mutate("seekTo", t, SetCurrentTime(el, next))

\* toggleMute, also writing the snapshot without waiting for volumechange
toggleMuteWritesSnapshot ==
    IF videoRef = "null" THEN Absent("toggleMute", 0)
    ELSE LET r == SetMuted(el, ~el.muted)
         IN /\ Input
            /\ el' = r.el
            /\ Fire(r.fired)
            /\ state' = [state EXCEPT !.muted = ~el.muted]
            /\ last' = Step("toggleMute", 0, r.calls, <<>>, FALSE)
            /\ UNCHANGED <<videoRef, subscribed, fullscreenElement, inflight,
                           phase, ftIn, ftOut>>

\* toggleMute, only ever muting
toggleMuteOnlyMutes ==
    IF videoRef = "null" THEN Absent("toggleMute", 0)
    ELSE Mutate("toggleMute", 0, SetMuted(el, TRUE))

\* toggleMute: () => { ... v.muted = !v.muted }
toggleMute ==
    IF videoRef = "null" THEN Absent("toggleMute", 0)
    ELSE Mutate("toggleMute", 0, SetMuted(el, ~el.muted))

\* The two assignments of setVolume, made one after the other
Then(r1, r2) ==
    [el |-> r2.el, fired |-> r1.fired \o r2.fired, calls |-> r1.calls \o r2.calls,
     promise |-> ""]

\* setVolume, never clearing the mute flag
setVolumeKeepsMute(vol) ==
    IF videoRef = "null" THEN Absent("setVolume", vol)
    ELSE Mutate("setVolume", vol, SetVolume(el, clamp(vol, 0, One)))

\* setVolume, clearing the mute flag whatever the volume
setVolumeAlwaysUnmutes(vol) ==
    IF videoRef = "null" THEN Absent("setVolume", vol)
    ELSE LET r1 == SetVolume(el, clamp(vol, 0, One))
         IN Mutate("setVolume", vol, Then(r1, SetMuted(r1.el, FALSE)))

\* setVolume: (vol) => { ... v.volume = clamp(vol, 0, 1);
\*                           if (v.volume > 0) v.muted = false }
setVolume(vol) ==
    IF videoRef = "null" THEN Absent("setVolume", vol)
    ELSE LET r1 == SetVolume(el, clamp(vol, 0, One))
             r2 == IF r1.el.volume > 0 THEN SetMuted(r1.el, FALSE)
                   ELSE [el |-> r1.el, fired |-> <<>>, calls |-> <<>>, promise |-> ""]
         IN Mutate("setVolume", vol, Then(r1, r2))

\* togglePlay, ignoring an invocation made while a play request is unsettled
togglePlayDeduplicated ==
    IF videoRef = "null" \/ inflight["playOk"] + inflight["playRejected"] > 0
    THEN Absent("togglePlay", 0)
    ELSE IF el.paused THEN \E allowed \in BOOLEAN :
                               Mutate("togglePlay", 0, Play(el, allowed))
         ELSE Mutate("togglePlay", 0, Pause(el))

\* togglePlay, reading the snapshot's playing field instead of v.paused
togglePlayFromSnapshot ==
    IF videoRef = "null" THEN Absent("togglePlay", 0)
    ELSE IF ~state.playing THEN \E allowed \in BOOLEAN :
                                    Mutate("togglePlay", 0, Play(el, allowed))
         ELSE Mutate("togglePlay", 0, Pause(el))

\* togglePlay: async () => { ... if (v.paused) await v.play(); else v.pause() },
\* up to the await
togglePlay ==
    IF videoRef = "null" THEN Absent("togglePlay", 0)
    ELSE IF el.paused THEN \E allowed \in BOOLEAN :
                               Mutate("togglePlay", 0, Play(el, allowed))
         ELSE Mutate("togglePlay", 0, Pause(el))

\* fullscreen, never leaving fullscreen
fullscreenAlwaysRequests ==
    IF videoRef = "null" THEN Absent("fullscreen", 0)
    ELSE Mutate("fullscreen", 0, RequestFullscreen(el))

\* fullscreen: async () => { ... if (document.fullscreenElement)
\*     await document.exitFullscreen(); else await v.requestFullscreen() },
\* up to the await
fullscreen ==
    IF videoRef = "null" THEN Absent("fullscreen", 0)
    ELSE IF fullscreenElement THEN Mutate("fullscreen", 0, ExitFullscreen(el))
         ELSE Mutate("fullscreen", 0, RequestFullscreen(el))

\* The continuation of an async command when its promise settles
Settled(kind, step) ==
    /\ inflight[kind] > 0
    /\ inflight' = [inflight EXCEPT ![kind] = @ - 1]
    /\ last' = step
    /\ UNCHANGED <<videoRef, subscribed, el, state, pending, phase, inputs,
                   ftIn, ftOut>>

\* togglePlay's catch, calling play() again
togglePlayCatchRetries ==
    /\ Settled("playRejected", Step("togglePlay.catch", 0, <<"play">>,
                                    <<"play() failed:">>, FALSE))
    /\ UNCHANGED fullscreenElement

\* togglePlay without its try/catch: the rejection escapes
togglePlayCatchMissing ==
    /\ Settled("playRejected", Step("togglePlay.catch", 0, <<>>, <<>>, TRUE))
    /\ UNCHANGED fullscreenElement

\* togglePlay after "await v.play()" resolved: nothing is left to do
togglePlayResumed ==
    /\ Settled("playOk", Quiet("togglePlay.resumed", 0))
    /\ UNCHANGED fullscreenElement

\* catch (e) { console.error("play() failed:", e) }
togglePlayCatch ==
    /\ Settled("playRejected", Step("togglePlay.catch", 0, <<>>,
                                    <<"play() failed:">>, FALSE))
    /\ UNCHANGED fullscreenElement

\* fullscreen's catch, issuing the request again
fullscreenCatchRetries(kind) ==
    /\ Settled(kind, Step("fullscreen.catch", 0, <<kind>>,
                          <<"fullscreen failed:">>, FALSE))
    /\ UNCHANGED fullscreenElement

\* fullscreen after its await resolved: the document has entered or left
\* fullscreen
fullscreenResumed(kind) ==
    /\ Settled(kind, Quiet("fullscreen.resumed", 0))
    /\ fullscreenElement' = (kind = "requestFullscreen")

\* catch (e) { console.error("fullscreen failed:", e) }
fullscreenCatch(kind) ==
    /\ Settled(kind, Step("fullscreen.catch", 0, <<>>,
                          <<"fullscreen failed:">>, FALSE))
    /\ UNCHANGED fullscreenElement

\* ------------------------------------------ changes made by the platform

Platform(r) ==
    /\ Input
    /\ el' = r.el
    /\ Fire(r.fired)
    /\ last' = Quiet("platform", 0)
    /\ UNCHANGED <<videoRef, subscribed, state, fullscreenElement, inflight,
                   phase, ftIn, ftOut>>

\* The resource's metadata arrives: the duration becomes known
PlatformLoadedMetadata(d) ==
    /\ el.duration = NaN
    /\ Platform([el |-> [el EXCEPT !.duration = d],
                 fired |-> << <<"loadedmetadata">> >>])

\* Playback advances by one tick
PlatformTimeProgress ==
    /\ ~el.paused
    /\ el.duration /= NaN
    /\ el.currentTime < (IF isFinite(el.duration) THEN el.duration.val ELSE MaxTime)
    /\ Platform([el |-> [el EXCEPT !.currentTime = @ + 1],
                 fired |-> << <<"timeupdate">> >>])

\* Playback is started or paused from outside the component (media keys,
\* picture-in-picture, the end of the media)
PlatformPlay ==
    /\ el.paused
    /\ Platform(Play(el, TRUE))

PlatformPause ==
    /\ ~el.paused
    /\ Platform(Pause(el))

\* Volume or mute is changed from outside the component
PlatformVolumeChange(x, m) ==
    /\ <<x, m>> /= <<el.volume, el.muted>>
    /\ Platform([el |-> [el EXCEPT !.volume = x, !.muted = m],
                 fired |-> << <<"volumechange">> >>])

\* The user leaves fullscreen with the Escape key
PlatformExitFullscreen ==
    /\ fullscreenElement
    /\ fullscreenElement' = FALSE
    /\ Input
    /\ last' = Quiet("platform", 0)
    /\ UNCHANGED <<videoRef, subscribed, el, state, pending, inflight, phase,
                   ftIn, ftOut>>

\* ----------------------------------------------------------- formatTime

RECURSIVE String(_)
\* String(n) for a non-negative integer n
String(n) ==
    LET d == n % 10
        c == CASE d = 0 -> "0" [] d = 1 -> "1" [] d = 2 -> "2" [] d = 3 -> "3"
               [] d = 4 -> "4" [] d = 5 -> "5" [] d = 6 -> "6" [] d = 7 -> "7"
               [] d = 8 -> "8" [] d = 9 -> "9"
    IN IF n < 10 THEN c ELSE String(n \div 10) \o c

RECURSIVE padStart(_, _, _)
\* str.padStart(len, fill) for a one-character fill
padStart(str, len, fill) ==
    IF Len(str) >= len THEN str ELSE padStart(fill \o str, len, fill)

\* Math.floor(seconds) of a finite, non-negative time given in ticks
MathFloor(x) == x.val \div TicksPerSecond

\* formatTime, without padding the seconds
formatTimeNoPad(seconds) ==
    IF ~isFinite(seconds) \/ seconds.val < 0 THEN "0:00"
    ELSE LET s == MathFloor(seconds)
         IN String(s \div 60) \o ":" \o String(s % 60)

\* function formatTime(seconds)
formatTime(seconds) ==
    IF ~isFinite(seconds) \/ seconds.val < 0 THEN "0:00"
    ELSE LET s == MathFloor(seconds)
             m == s \div 60
             r == s % 60
         IN String(m) \o ":" \o padStart(String(r), 2, "0")

\* The times given to formatTime: every tick from below zero to MaxSeconds
\* seconds, and the non-finite numbers
FormatArgs ==
    {Num(n) : n \in (0 - 3 * TicksPerSecond)..(MaxSeconds * TicksPerSecond)}
        \cup {NaN, Infinity, NegInfinity}

\* ControlsOverlay renders {formatTime(...)}
Render ==
    /\ ftOut = ""
    /\ ftOut' = formatTime(ftIn)
    /\ UNCHANGED <<playerVars, ftIn>>

\* ------------------------------------------------------ specifications

Next ==
    \/ Attach
    \/ Detach
    \/ Dispatch
    \/ togglePlay
    \/ \E t \in SeekArgs : seekTo(t)
    \/ toggleMute
    \/ \E vol \in VolumeArgs : setVolume(vol)
    \/ fullscreen
    \/ togglePlayResumed
    \/ togglePlayCatch
    \/ \E kind \in {"requestFullscreen", "exitFullscreen"} : fullscreenResumed(kind)
    \/ \E kind \in {"requestFullscreen", "exitFullscreen"} : fullscreenCatch(kind)
    \/ \E d \in Durations : PlatformLoadedMetadata(d)
    \/ PlatformTimeProgress
    \/ PlatformPlay
    \/ PlatformPause
    \/ \E x \in 0..One, m \in BOOLEAN : PlatformVolumeChange(x, m)
    \/ PlatformExitFullscreen

Spec == Init /\ [][Next]_vars

\* The event loop runs every task it is given: a queued media-element task is
\* eventually dispatched
SpecFair == Spec /\ WF_vars(Dispatch)

\* formatTime applied to each of FormatArgs
FormatInit ==
    /\ PlayerInit
    /\ ftIn \in FormatArgs
    /\ ftOut = ""

FormatNext == Render

SpecFormat == FormatInit /\ [][FormatNext]_vars

\* ------------------------------------------------------------ properties

Commands == {"togglePlay", "seekTo", "toggleMute", "setVolume", "fullscreen"}

\* n saturated at the ends of [lo, hi]
Saturated(n, lo, hi) == IF n < lo THEN lo ELSE IF n > hi THEN hi ELSE n

\* C1: on an attached element, seekTo(t) leaves the current time at t saturated
\* to [0, duration] when the duration is finite and at 0 when it is not, and
\* throws nothing, whatever t is.
SeekToClamps ==
    (last.op = "seekTo" /\ videoRef = "video") =>
        /\ ~last.threw
        /\ el.currentTime = IF isFinite(last.found.duration)
                            THEN Saturated(last.arg, 0, last.found.duration.val)
                            ELSE 0

\* A seek beyond a known duration has been saturated to it
SeekBeyondDuration ==
    /\ last.op = "seekTo" /\ videoRef = "video"
    /\ isFinite(el.duration)
    /\ last.arg > el.duration.val
    /\ last.found.currentTime < el.duration.val
    /\ el.currentTime = el.duration.val

\* C2: on an attached element, setVolume(v) leaves the stored volume at v
\* saturated to [0, 1].
SetVolumeClamps ==
    (last.op = "setVolume" /\ videoRef = "video") =>
        el.volume = Saturated(last.arg, 0, One)

\* A negative volume has been stored as 0
SetVolumeBelowRange ==
    /\ last.op = "setVolume" /\ videoRef = "video"
    /\ last.arg < 0
    /\ last.found.volume > 0
    /\ el.volume = 0

\* C3: on an attached element, setVolume(v) with v > 0 leaves the element
\* unmuted, whether it was muted before or not.
SetVolumeUnmutes ==
    (last.op = "setVolume" /\ videoRef = "video" /\ last.arg > 0) => ~el.muted

\* A muted element at half volume has been given full volume, and is unmuted
SetVolumeOnMuted ==
    /\ last.op = "setVolume" /\ videoRef = "video"
    /\ last.found.muted /\ last.found.volume = 1
    /\ last.arg = One
    /\ el.volume = One /\ ~el.muted

\* C4: while videoRef.current is null, a command (any of the five, with any
\* argument) throws nothing, makes no call on the platform, logs nothing and
\* leaves the snapshot, the element, the fullscreen state, the task queue and
\* the promises in flight as they were.
AbsentCommandsAreNoOps ==
    [][(videoRef = "null" /\ last'.op \in Commands) =>
        /\ ~last'.threw
        /\ last'.requests = <<>>
        /\ last'.logged = <<>>
        /\ UNCHANGED <<videoRef, subscribed, el, state, pending,
                       fullscreenElement, inflight, phase>>]_vars

\* A command has run before the element was attached, on an element that the
\* platform had already changed
CommandBeforeAttach ==
    /\ phase = "constructed"
    /\ last.op \in Commands
    /\ el.duration /= NaN

\* C5: once detached, no listener is left registered, and no step (a
\* notification of any type in particular) changes the snapshot.
DetachStopsUpdates ==
    /\ [](phase = "detached" => subscribed = {})
    /\ [][phase = "detached" => state' = state]_vars

\* A notification has been delivered after the detachment, and the snapshot
\* is still behind the element
NotificationAfterDetach ==
    /\ phase = "detached"
    /\ last.op = "dispatch"
    /\ pending = <<>>
    /\ state.playing = el.paused
    /\ state.muted /= el.muted

\* C6: on an attached element, toggleMute flips the muted flag, and a second
\* toggleMute right after the first restores the flag the first one found.
ToggleMuteInvolution ==
    /\ []((last.op = "toggleMute" /\ videoRef = "video") =>
            el.muted = ~last.found.muted)
    /\ [][(last.op = "toggleMute" /\ last'.op = "toggleMute" /\ videoRef = "video") =>
            el'.muted = last.found.muted]_vars

\* toggleMute has run twice in a row on an attached element
ToggleMuteTwice ==
    /\ phase = "attached"
    /\ last.op = "toggleMute"
    /\ inputs = 2
    /\ pending = << <<"volumechange">>, <<"volumechange">> >>
    /\ el.volume = state.volume
    /\ el.muted = state.muted
    /\ last.found.muted = ~el.muted

\* C7: formatTime gives "0:00" for a negative or non-finite time, and for any
\* other time the whole seconds s = floor(time) as s div 60, a colon, and
\* s mod 60 in two digits; 75 is "1:15", 0, -3 and NaN are "0:00".
FormatTimeContract ==
    ftOut /= "" =>
        /\ (~isFinite(ftIn) \/ ftIn.val < 0) => ftOut = "0:00"
        /\ (isFinite(ftIn) /\ ftIn.val >= 0) =>
              LET whole == ftIn.val \div TicksPerSecond
                  secs == whole % 60
              IN ftOut = String(whole \div 60) \o ":" \o String(secs \div 10)
                             \o String(secs % 10)
        /\ ftIn = Num(75 * TicksPerSecond) => ftOut = "1:15"
        /\ ftIn = Num(0) => ftOut = "0:00"
        /\ ftIn = Num(0 - 3 * TicksPerSecond) => ftOut = "0:00"
        /\ ftIn = NaN => ftOut = "0:00"

\* A time with a fraction and fewer than ten seconds past the minute has been
\* formatted
FormatTimePadded ==
    /\ ftIn = Num(65 * TicksPerSecond + 1)
    /\ ftOut = "1:05"

\* The snapshot that agrees with the element e in every field
Mirror(e) ==
    [playing |-> ~e.paused, current |-> e.currentTime,
     duration |-> IF e.duration = NaN THEN Num(0) ELSE e.duration,
     muted |-> e.muted, volume |-> e.volume]

\* C8: right after the attachment, before any step has followed it, the
\* snapshot equals the element in every field: playing = not paused, current
\* time, duration (0 for NaN), volume and muted.
AttachReadsElement == last.op = "attach" => state = Mirror(el)

\* The element was playing, muted and past its start when the Mirror was
\* attached, and none of its events has been delivered
AttachedWhilePlaying ==
    /\ last.op = "attach"
    /\ Len(pending) = inputs
    /\ ~el.paused /\ state.playing
    /\ el.currentTime > 0 /\ state.current = el.currentTime
    /\ state.duration = el.duration

\* The snapshot fields a notification is about
Owned(e) ==
    CASE e = "loadedmetadata" -> {"duration"}
      [] e = "timeupdate" -> {"current"}
      [] e = "play" -> {"playing"}
      [] e = "pause" -> {"playing"}
      [] e = "volumechange" -> {"volume", "muted"}

\* C9: a notification handler changes no snapshot field but its own (duration
\* for loadedmetadata, current for timeupdate, playing for play and for pause,
\* volume and muted for volumechange), whatever the snapshot and the element
\* are; and the delivery of a task changes no field but those of its events.
HandlersMerge ==
    /\ [](\A e \in EventTypes : \A f \in DOMAIN state :
            f \notin Owned(e) => Handler(e, state)[f] = state[f])
    /\ [][last'.op = "dispatch" =>
            \A f \in DOMAIN state :
                (\A i \in DOMAIN Head(pending) : f \notin Owned(Head(pending)[i]))
                    => state'[f] = state[f]]_vars

\* A notification has been merged into a snapshot whose other fields were no
\* longer the initial ones
MergedNotification ==
    /\ last.op = "dispatch"
    /\ phase = "attached"
    /\ state.playing /\ state.muted /\ state.duration /= Num(0)

\* C10: when the play request of togglePlay is refused, the element stays
\* paused and the snapshot untouched by the request; the catch that follows
\* logs the rejection once, calls nothing on the platform (no retry), lets
\* nothing escape, and leaves snapshot, element, listeners, task queue and
\* fullscreen state as they were, so a snapshot that is not playing stays so.
PlayRejectionOnlyLogged ==
    [][/\ last'.op = "togglePlay.catch" =>
            /\ last'.logged = <<"play() failed:">>
            /\ last'.requests = <<>>
            /\ ~last'.threw
            /\ UNCHANGED <<videoRef, subscribed, el, state, pending,
                           fullscreenElement, phase>>
       /\ (last'.op = "togglePlay" /\ inflight'["playRejected"] > inflight["playRejected"]) =>
            /\ last'.requests = <<"play">>
            /\ ~last'.threw
            /\ el.paused /\ el' = el
            /\ state' = state]_vars

\* The rejection of a play request made on a paused element has been logged;
\* the snapshot says not playing
PlayRejectionLogged ==
    /\ last.op = "togglePlay.catch"
    /\ phase = "attached"
    /\ el.paused /\ ~state.playing
    /\ pending = <<>>
    /\ inflight["playRejected"] = 0 /\ inflight["playOk"] = 0

\* C11: the fullscreen command changes nothing when it issues its request, and
\* when the request (to enter or to leave) is rejected its catch logs the
\* rejection once, calls nothing on the platform (no retry), lets nothing
\* escape and leaves the fullscreen state and everything else as it was.
FullscreenRejectionOnlyLogged ==
    [][/\ last'.op = "fullscreen.catch" =>
            /\ last'.logged = <<"fullscreen failed:">>
            /\ last'.requests = <<>>
            /\ ~last'.threw
            /\ UNCHANGED <<videoRef, subscribed, el, state, pending,
                           fullscreenElement, phase>>
       /\ last'.op = "fullscreen" =>
            /\ ~last'.threw
            /\ UNCHANGED <<fullscreenElement, el, state>>]_vars

\* The request to leave fullscreen has been rejected: the document is still in
\* fullscreen and nothing is in flight
ExitRejectionLogged ==
    /\ last.op = "fullscreen.catch"
    /\ phase = "attached"
    /\ fullscreenElement
    /\ inputs = 2
    /\ \A k \in PromiseKinds : inflight[k] = 0

\* C12: on an attached element togglePlay makes exactly one call, chosen from
\* the paused flag the element had when it was invoked: play() if it was
\* paused, pause() if it was not, whatever the snapshot says.
TogglePlayReadsElement ==
    (last.op = "togglePlay" /\ videoRef = "video") =>
        last.requests = IF last.found.paused THEN <<"play">> ELSE <<"pause">>

\* togglePlay has requested play on a paused element whose snapshot still
\* said playing
TogglePlayAgainstSnapshot ==
    /\ last.op = "togglePlay" /\ videoRef = "video"
    /\ last.found.paused /\ state.playing
    /\ last.requests = <<"play">>

\* The number of promises in flight
InFlightTotal ==
    inflight["playOk"] + inflight["playRejected"]
        + inflight["requestFullscreen"] + inflight["exitFullscreen"]

\* C13: on an attached element the fullscreen command makes exactly one call:
\* exitFullscreen if the document is in fullscreen, requestFullscreen if not;
\* and an invocation whose request resolves before anything else happens
\* inverts the fullscreen state, so that two such invocations in a row restore
\* it.
FullscreenToggles ==
    [][/\ (last'.op = "fullscreen" /\ videoRef = "video") =>
            last'.requests = IF fullscreenElement THEN <<"exitFullscreen">>
                             ELSE <<"requestFullscreen">>
       /\ (/\ last.op = "fullscreen" /\ last.requests /= <<>>
           /\ InFlightTotal = 1
           /\ last'.op = "fullscreen.resumed") =>
            fullscreenElement' = ~fullscreenElement]_vars

\* Two invocations in a row have succeeded: the second one, made in
\* fullscreen, asked to leave it, and the document is out of fullscreen again
FullscreenTwice ==
    /\ last.op = "fullscreen.resumed"
    /\ phase = "attached"
    /\ inputs = 2
    /\ ~fullscreenElement
    /\ \A k \in PromiseKinds : inflight[k] = 0

\* C14: in every reachable state the snapshot's volume lies in [0, 1].
SnapshotVolumeInRange == state.volume >= 0 /\ state.volume <= One

\* The snapshot has taken the volume 0, the lower end of the range, that the
\* one input so far left on the element
SnapshotAfterSaturatedVolume ==
    /\ phase = "attached"
    /\ last.op = "dispatch"
    /\ inputs = 1
    /\ last.found.volume = 0
    /\ state.volume = 0 /\ ~state.muted

OnlyNotificationsWriteSnapshot ==
    [][/\ state' /= state => last'.op \in {"attach", "dispatch"}
       /\ last'.op \in Commands \cup {"togglePlay.resumed", "togglePlay.catch",
                                     "fullscreen.resumed", "fullscreen.catch"} =>
            UNCHANGED <<state, subscribed, videoRef, phase>>]_vars

\* A command has changed the element, and the snapshot still shows what the
\* element was
CommandAheadOfSnapshot ==
    /\ phase = "attached"
    /\ last.op = "toggleMute"
    /\ el.muted /\ ~state.muted
    /\ state = Mirror(last.found)
    /\ pending = << <<"volumechange">> >>

\* The play requests of togglePlay that have not settled
PlayInFlight == inflight["playOk"] + inflight["playRejected"]

\* C17: a togglePlay invoked on an attached element while an earlier play
\* request is unsettled is not held back or dropped: it can run at once, makes
\* its one call, and on an element that reports paused that call is a second
\* play request, in flight together with the first.
TogglePlayNotDeduplicated ==
    /\ []((videoRef = "video" /\ PlayInFlight > 0 /\ inputs < MaxInputs) =>
            ENABLED togglePlay)
    /\ [][(videoRef = "video" /\ PlayInFlight > 0 /\ last'.op = "togglePlay") =>
            /\ Len(last'.requests) = 1
            /\ el.paused =>
                  /\ last'.requests = <<"play">>
                  /\ PlayInFlight' = PlayInFlight + 1]_vars

\* Two play requests are in flight: the second togglePlay found the element
\* still paused while the first request was unsettled
TwoPlayRequestsInFlight ==
    /\ last.op = "togglePlay" /\ videoRef = "video"
    /\ last.found.paused
    /\ last.requests = <<"play">>
    /\ PlayInFlight = 2

SetVolumeZeroKeepsMute ==
    (last.op = "setVolume" /\ videoRef = "video") =>
        /\ last.arg <= 0 => el.muted = last.found.muted
        /\ el.muted => last.found.muted

\* A muted element at a positive volume has been given a negative volume: it
\* is at volume 0 and still muted
SetVolumeZeroOnMuted ==
    /\ last.op = "setVolume" /\ videoRef = "video"
    /\ last.arg < 0
    /\ last.found.muted /\ last.found.volume > 0
    /\ el.muted /\ el.volume = 0

====
